---- MODULE Spec2Model ----
(***************************************************************************)
(* A single-node proof-of-work ledger with a UTXO index.                   *)
(*                                                                         *)
(* Block sealing (block.rs), the ledger and its backward iterator          *)
(* (blockchain.rs), the spend units (tx.rs) and the command line           *)
(* (cli.rs) are translated from the sources.  The transaction builder,     *)
(* the persisted UTXO set and the wallet are not among the sources: they   *)
(* are modelled from the design document and marked as such.               *)
(*                                                                         *)
(* Strings that are digests are modelled as tuples: the empty string is    *)
(* <<>>, a block hash is the tuple of its first TARGET_HEXT hex digits     *)
(* followed by the hashed bytes (collision resistance: two hashes are      *)
(* equal only if the hashed bytes are).                                    *)
(***************************************************************************)
EXTENDS Integers, Sequences, FiniteSets, TLC

VARIABLES
    dbLast,        \* sled "data/blocks": value under key "LAST" (None or Some(bytes))
    dbBlocks,      \* sled "data/blocks": block hash -> serialized block
    current_hash,  \* Blockchain.current_hash of the handle in use
    utxos,         \* the persisted UTXO set: transaction id -> TXOutputs
    new_block,     \* the block returned by the last Block::new_block (None or Some)
    iterator,      \* BlockchainIterator: None, or Some(current_hash)
    yielded,       \* blocks printed by the last printchain, emptied by any other command
    appended,      \* number of add_block calls since create_blockchain
    out            \* outcome of the last command

vars == <<dbLast, dbBlocks, current_hash, utxos, new_block, iterator, yielded, appended, out>>

----------------------------------------------------------------------------
(* Bounds of the model *)

\* add_block calls on one chain
MaxAppends == 2
\* nonces the proof of work may have to try beyond 0
MaxWork == 3

\* wallet addresses, amounts given to `send`, readings of the clock
Addresses == {"A", "B"}
Amounts == {1, 2}
Times == {0, 1}

----------------------------------------------------------------------------
(* Program constants *)

TARGET_HEXT == 4
HexBase == 16
BLOCKCHAIN_TARGET_HEXT == 4
SUBSIDY == 3
GENESIS_COINBASE_DATA == "The Times 03/Jan/2009 Chancellor on brink of second bailout for banks"
SEND_COINBASE_DATA == "Reawad!"

----------------------------------------------------------------------------
(* Option, maps *)

None == <<>>
Some(x) == <<x>>

EmptyMap == [k \in {} |-> <<>>]
Put(m, k, v) == [x \in (DOMAIN m) \cup {k} |-> IF x = k THEN v ELSE m[x]]
Remove(m, k) == [x \in (DOMAIN m) \ {k} |-> m[x]]

Contains(s, x) == \E i \in 1..Len(s) : s[i] = x

RECURSIVE SumSeq(_)
SumSeq(s) == IF s = <<>> THEN 0 ELSE Head(s) + SumSeq(Tail(s))

----------------------------------------------------------------------------
(* Wallet and address codec (external collaborators) *)

\* the public key of the wallet behind an address
PubKey(address) == <<"pub", address>>

\* wallet::hash_pub_key
hash_pub_key(pub_key) == <<"hash160", pub_key[2]>>

\* Address::decode(address).body
AddressDecode(address) == <<"hash160", address>>

----------------------------------------------------------------------------
(* tx.rs: spend units *)

\* TXOutput::new: an output of `value` locked to `address`
TXOutput_new(value, address) == [value |-> value, pub_key_hash |-> AddressDecode(address)]

\* TXOutput::can_be_unlock_with
can_be_unlock_with(output, unlocking_data) == output.pub_key_hash = unlocking_data

\* TXInput::can_unlock_output_with
can_unlock_output_with(input, unlocking_data) == hash_pub_key(input.pub_key) = unlocking_data

----------------------------------------------------------------------------
(* Transaction model *)

\* the digest of a transaction with its id and all input signatures blanked
TxHash(tx) ==
    <<"txid",
      [i \in 1..Len(tx.vin) |-> [tx.vin[i] EXCEPT !.signature = <<>>]],
      tx.vout>>

\* a coinbase carries one synthetic input: no previous transaction, index -1
is_coinbase(tx) ==
    /\ Len(tx.vin) = 1
    /\ tx.vin[1].txid = <<>>
    /\ tx.vin[1].vout = -1

\* one synthetic input carrying the note, one output of the fixed reward
new_coinbase(to, data) ==
    LET tx == [id   |-> <<>>,
               vin  |-> <<[txid |-> <<>>, vout |-> -1, signature |-> <<>>,
                           pub_key |-> <<"data", data>>]>>,
               vout |-> <<TXOutput_new(SUBSIDY, to)>>]
    IN  [tx EXCEPT !.id = TxHash(tx)]

----------------------------------------------------------------------------
(* block.rs: sealing *)

\* bincode::serialize of (prev_block_hash, transactions, timestamp, TARGET_HEXT, nonce)
prepare_hash_data(block) ==
    <<block.prev_block_hash, block.transactions, block.timestamp, TARGET_HEXT, block.nonce>>

\* the leading TARGET_HEXT hex digits of SHA-256 as a number below
\* HexBase^TARGET_HEXT: every hashed field weighs in, and counting the nonce up
\* from 0 reaches a digest with all of them zero within MaxWork steps
Mix(data) ==
    LET prev == data[1]
        w    == IF prev = <<>> THEN 0
                ELSE 7 * prev[TARGET_HEXT + 1][5] + prev[TARGET_HEXT + 1][3] + 1
        salt == (w + 3 * Len(data[2]) + 5 * data[3] + data[4]) % (MaxWork + 1)
    IN  (HexBase ^ TARGET_HEXT - salt + data[5]) % HexBase ^ TARGET_HEXT

\* the hashed bytes, in short: a transaction is named by its id (the digest of all
\* of it but its signatures) and its signatures
Digested(data) ==
    <<data[1],
      [t \in 1..Len(data[2]) |->
          <<data[2][t].id,
            [i \in 1..Len(data[2][t].vin) |-> data[2][t].vin[i].signature]>>],
      data[3], data[4], data[5]>>

\* the first TARGET_HEXT hex digits of the digest
LeadingHex(data) ==
    LET n == Mix(data)
    IN  [i \in 1..TARGET_HEXT |-> (n \div HexBase ^ (TARGET_HEXT - i)) % HexBase]

\* hasher.result_str(): the hex string of the digest, its first TARGET_HEXT
\* digits and then the rest
Sha256(data) == LeadingHex(data) \o <<Digested(data)>>

\* Block::validate: the first TARGET_HEXT characters of the digest are '0'
validate(block) ==
    LeadingHex(prepare_hash_data(block)) = [i \in 1..TARGET_HEXT |-> 0]

\* a loop that gives up after one increment
Mine_GivesUp(block) ==
    IF validate(block) THEN block ELSE [block EXCEPT !.nonce = @ + 1]

\* the loop of run_proof_of_work: nonce += 1 until validate
RECURSIVE Mine(_)
Mine(block) == IF validate(block) THEN block ELSE Mine([block EXCEPT !.nonce = @ + 1])

\* the digest taken before the loop has settled the nonce
run_proof_of_work_HashesFirst(block) ==
    [Mine(block) EXCEPT !.hash = Sha256(prepare_hash_data(block))]

\* Block::run_proof_of_work: mine, then set hash to the digest
run_proof_of_work(block) ==
    LET mined == Mine(block)
    IN  [mined EXCEPT !.hash = Sha256(prepare_hash_data(mined))]

\* Block::new_block
Block_new_block(data, prev_block_hash, height, timestamp) ==
    run_proof_of_work([timestamp       |-> timestamp,
                       transactions    |-> data,
                       prev_block_hash |-> prev_block_hash,
                       hash            |-> <<>>,
                       height          |-> height,
                       nonce           |-> 0])

\* Block::new_genesis_block
new_genesis_block(coinbase, timestamp) == Block_new_block(<<coinbase>>, <<>>, 0, timestamp)

\* bincode::serialize(&block): the fields in declaration order
Serialize(block) ==
    <<block.timestamp, block.transactions, block.prev_block_hash,
      block.hash, block.height, block.nonce>>

\* bincode::deserialize::<Block>: Some(block), or None for malformed bytes
Deserialize(bytes) ==
    IF Len(bytes) = 6
    THEN Some([timestamp       |-> bytes[1],
               transactions    |-> bytes[2],
               prev_block_hash |-> bytes[3],
               hash            |-> bytes[4],
               height          |-> bytes[5],
               nonce           |-> bytes[6]])
    ELSE None

\* String::as_bytes / String::from_utf8 on a hash
as_bytes(hash) == [utf8 |-> hash]
from_utf8(bytes) == bytes.utf8

----------------------------------------------------------------------------
(* blockchain.rs: the ledger *)

\* a removal that leaves the entries of the old store where they are
remove_dir_all_KeepsBlocks(blocks) == blocks

\* std::fs::remove_dir_all("data/blocks"): what sled::open finds afterwards
remove_dir_all(blocks) == EmptyMap

\* Blockchain::create_blockchain on a store holding `blocks`: the old store
\* removed, a fresh one holding the genesis block and "LAST"
create_blockchain(blocks, address, timestamp) ==
    LET cbtx    == new_coinbase(address, GENESIS_COINBASE_DATA)
        genesis == new_genesis_block(cbtx, timestamp)
    IN  [last         |-> Some(as_bytes(genesis.hash)),
         blocks       |-> Put(remove_dir_all(blocks), genesis.hash, Serialize(genesis)),
         current_hash |-> genesis.hash,
         block        |-> genesis]

\* an add_block that leaves the handle's current_hash where it was
add_block_KeepsCurrentHash(last, blocks, transactions, timestamp) ==
    LET last_hash == last[1]
        block     == Block_new_block(transactions, from_utf8(last_hash),
                                     BLOCKCHAIN_TARGET_HEXT, timestamp)
    IN  [last         |-> Some(as_bytes(block.hash)),
         blocks       |-> Put(blocks, block.hash, Serialize(block)),
         current_hash |-> from_utf8(last_hash),
         block        |-> block]

\* an add_block that writes the new block over the store
add_block_ReplacesStore(last, blocks, transactions, timestamp) ==
    LET last_hash == last[1]
        block     == Block_new_block(transactions, from_utf8(last_hash),
                                     BLOCKCHAIN_TARGET_HEXT, timestamp)
    IN  [last         |-> Some(as_bytes(block.hash)),
         blocks       |-> Put(EmptyMap, block.hash, Serialize(block)),
         current_hash |-> block.hash,
         block        |-> block]

\* Blockchain::add_block on a store whose "LAST" is Some(last): seal on top of LAST,
\* insert hash -> bytes, repoint "LAST", set current_hash
add_block(last, blocks, transactions, timestamp) ==
    LET last_hash == last[1]
        block     == Block_new_block(transactions, from_utf8(last_hash),
                                     BLOCKCHAIN_TARGET_HEXT, timestamp)
    IN  [last         |-> Some(as_bytes(block.hash)),
         blocks       |-> Put(blocks, block.hash, Serialize(block)),
         current_hash |-> block.hash,
         block        |-> block]

\* Blockchain::iter: a cursor at the handle's current_hash
iter(cur_hash) == Some(cur_hash)

\* a cursor that moves to the block's own hash, not to its predecessor's
next_StaysOnBlock(blocks, cur) ==
    IF cur \in DOMAIN blocks
    THEN LET decoded == Deserialize(blocks[cur])
         IN  IF decoded # None
             THEN [item |-> decoded, current_hash |-> decoded[1].hash]
             ELSE [item |-> None, current_hash |-> cur]
    ELSE [item |-> None, current_hash |-> cur]

\* BlockchainIterator::next: the item (None or Some(block)) and the cursor afterwards
next(blocks, cur) ==
    IF cur \in DOMAIN blocks
    THEN LET decoded == Deserialize(blocks[cur])
         IN  IF decoded # None
             THEN [item |-> decoded, current_hash |-> decoded[1].prev_block_hash]
             ELSE [item |-> None, current_hash |-> cur]
    ELSE [item |-> None, current_hash |-> cur]

\* `for block in self.iter()`: every block the iterator yields, tip first
RECURSIVE Collect(_, _, _)
Collect(blocks, cur, fuel) ==
    LET r == next(blocks, cur)
    IN  IF fuel = 0 \/ r.item = None THEN <<>>
        ELSE <<r.item[1]>> \o Collect(blocks, r.current_hash, fuel - 1)

Chain(blocks, cur_hash) == Collect(blocks, iter(cur_hash)[1], Cardinality(DOMAIN blocks) + 1)

\* find_utxo, the loop over the outputs of one transaction (index is 0-based):
\* an output is skipped when spend_txos lists its index, else pushed under tx.id
RECURSIVE ScanOutputs(_, _, _, _)
ScanOutputs(tx, index, found, spend_txos) ==
    IF index >= Len(tx.vout) THEN found
    ELSE IF tx.id \in DOMAIN spend_txos /\ Contains(spend_txos[tx.id], index)
         THEN ScanOutputs(tx, index + 1, found, spend_txos)
         ELSE LET e == [index |-> index, output |-> tx.vout[index + 1]]
              IN  ScanOutputs(tx, index + 1,
                      IF tx.id \in DOMAIN found
                      THEN Put(found, tx.id, Append(found[tx.id], e))
                      ELSE Put(found, tx.id, <<e>>),
                      spend_txos)

\* find_utxo, the loop over the inputs of one non-coinbase transaction
RECURSIVE ScanInputs(_, _, _)
ScanInputs(tx, i, spend_txos) ==
    IF i > Len(tx.vin) THEN spend_txos
    ELSE LET vin == tx.vin[i]
         IN  ScanInputs(tx, i + 1,
                 IF vin.txid \in DOMAIN spend_txos
                 THEN Put(spend_txos, vin.txid, Append(spend_txos[vin.txid], vin.vout))
                 ELSE Put(spend_txos, vin.txid, <<vin.vout>>))

\* find_utxo, the loop over the transactions of one block
RECURSIVE ScanTxs(_, _, _)
ScanTxs(txs, i, st) ==
    IF i > Len(txs) THEN st
    ELSE LET tx == txs[i]
         IN  ScanTxs(txs, i + 1,
                 [found      |-> ScanOutputs(tx, 0, st.found, st.spend_txos),
                  spend_txos |-> IF is_coinbase(tx) THEN st.spend_txos
                                 ELSE ScanInputs(tx, 1, st.spend_txos)])

\* find_utxo, the loop over the blocks the iterator yields
RECURSIVE ScanBlocks(_, _, _)
ScanBlocks(chain, i, st) ==
    IF i > Len(chain) THEN st
    ELSE ScanBlocks(chain, i + 1, ScanTxs(chain[i].transactions, 1, st))

\* the scan of find_utxo, each pushed output kept with the index it was pushed from
find_utxo_scan(blocks, cur_hash) ==
    ScanBlocks(Chain(blocks, cur_hash), 1, [found |-> EmptyMap, spend_txos |-> EmptyMap]).found

\* Blockchain::find_utxo: transaction id -> TXOutputs { outputs }
find_utxo(blocks, cur_hash) ==
    LET found == find_utxo_scan(blocks, cur_hash)
    IN  [id \in DOMAIN found |->
            [outputs |-> [k \in 1..Len(found[id]) |-> found[id][k].output]]]

\* find_transaction, the loop over the transactions of one block
RECURSIVE FindInTxs(_, _, _)
FindInTxs(txs, i, id) ==
    IF i > Len(txs) THEN None
    ELSE IF txs[i].id = id THEN Some(txs[i])
    ELSE FindInTxs(txs, i + 1, id)

\* a scan that looks into the first block the iterator yields and no further
FindInChain_TipOnly(chain, b, id) ==
    IF b > Len(chain) THEN None ELSE FindInTxs(chain[b].transactions, 1, id)

\* find_transaction, the loop over the blocks the iterator yields
RECURSIVE FindInChain(_, _, _)
FindInChain(chain, b, id) ==
    IF b > Len(chain) THEN None
    ELSE LET hit == FindInTxs(chain[b].transactions, 1, id)
         IN  IF hit # None THEN hit ELSE FindInChain(chain, b + 1, id)

\* Blockchain::find_transaction: Some(tx), or None for "Transaction is not found"
find_transaction(blocks, cur_hash, id) == FindInChain(Chain(blocks, cur_hash), 1, id)

----------------------------------------------------------------------------
(* The persisted UTXO set and the transfer builder *)

\* the outputs `outs` without the one at 0-based position pos
RemoveAt(outs, pos) ==
    IF pos < 0 \/ pos >= Len(outs) THEN outs
    ELSE SubSeq(outs, 1, pos) \o SubSeq(outs, pos + 2, Len(outs))

\* apply, one input: remove the referenced output, drop the entry when it empties
SpendOutput(index, vin) ==
    IF vin.txid \notin DOMAIN index THEN index
    ELSE LET rest == RemoveAt(index[vin.txid].outputs, vin.vout)
         IN  IF rest = <<>> THEN Remove(index, vin.txid)
             ELSE Put(index, vin.txid, [outputs |-> rest])

RECURSIVE SpendInputs(_, _, _)
SpendInputs(index, vin, i) ==
    IF i > Len(vin) THEN index ELSE SpendInputs(SpendOutput(index, vin[i]), vin, i + 1)

\* apply, first pass: every input of every non-coinbase transaction of the block
RECURSIVE ApplyInputs(_, _, _)
ApplyInputs(index, txs, i) ==
    IF i > Len(txs) THEN index
    ELSE ApplyInputs(IF is_coinbase(txs[i]) THEN index ELSE SpendInputs(index, txs[i].vin, 1),
                     txs, i + 1)

\* apply, second pass: the outputs of every transaction, under its id
RECURSIVE ApplyOutputs(_, _, _)
ApplyOutputs(index, txs, i) ==
    IF i > Len(txs) THEN index
    ELSE ApplyOutputs(Put(index, txs[i].id, [outputs |-> txs[i].vout]), txs, i + 1)

\* UTXOSet::update: the incremental update for one appended block
update(index, block) ==
    ApplyOutputs(ApplyInputs(index, block.transactions, 1), block.transactions, 1)

\* UTXOSet::reindex: the index rebuilt from the ledger
reindex(blocks, cur_hash) == find_utxo(blocks, cur_hash)

\* the orders in which the entries of a set of keys can be visited
RECURSIVE Orders(_)
Orders(S) ==
    IF S = {} THEN {<<>>}
    ELSE UNION {{<<k>> \o o : o \in Orders(S \ {k})} : k \in S}

\* the keys of the index that hold an output locked to pub_key_hash
OwnedKeys(index, pub_key_hash) ==
    {id \in DOMAIN index :
        \E k \in 1..Len(index[id].outputs) : can_be_unlock_with(index[id].outputs[k], pub_key_hash)}

\* find_spendable_outputs, the outputs of one entry
RECURSIVE SpendableInEntry(_, _, _, _, _, _)
SpendableInEntry(id, outs, k, pub_key_hash, amount, acc) ==
    IF k > Len(outs) THEN acc
    ELSE SpendableInEntry(id, outs, k + 1, pub_key_hash, amount,
             IF can_be_unlock_with(outs[k], pub_key_hash) /\ acc.accumulated < amount
             THEN [accumulated |-> acc.accumulated + outs[k].value,
                   selected    |-> Append(acc.selected, [txid |-> id, vout |-> k - 1])]
             ELSE acc)

\* find_spendable_outputs: accumulate owned outputs in visiting order until the
\* total reaches amount or the index is exhausted
RECURSIVE find_spendable_outputs(_, _, _, _, _, _)
find_spendable_outputs(index, order, i, pub_key_hash, amount, acc) ==
    IF i > Len(order) THEN acc
    ELSE find_spendable_outputs(index, order, i + 1, pub_key_hash, amount,
             SpendableInEntry(order[i], index[order[i]].outputs, 1, pub_key_hash, amount, acc))

\* UTXOSet::find_utxo(pub_key_hash) summed by getbalance
RECURSIVE BalanceOver(_, _, _)
BalanceOver(index, keys, pub_key_hash) ==
    IF keys = {} THEN 0
    ELSE LET id   == CHOOSE k \in keys : TRUE
             outs == index[id].outputs
         IN  SumSeq([k \in 1..Len(outs) |->
                        IF can_be_unlock_with(outs[k], pub_key_hash) THEN outs[k].value ELSE 0])
             + BalanceOver(index, keys \ {id}, pub_key_hash)

balance(index, address) == BalanceOver(index, DOMAIN index, AddressDecode(address))

\* sign: every input receives the signature of the spender
sign(tx, from) ==
    [tx EXCEPT !.vin = [i \in 1..Len(tx.vin) |-> [tx.vin[i] EXCEPT !.signature = <<"sig", from>>]]]

\* new_transfer: Some(signed transaction), or None for InsufficientFunds
new_utxo(from, to, amount, index, order) ==
    LET acc == find_spendable_outputs(index, order, 1, AddressDecode(from), amount,
                                      [accumulated |-> 0, selected |-> <<>>])
        tx  == [id   |-> <<>>,
                vin  |-> [i \in 1..Len(acc.selected) |->
                             [txid      |-> acc.selected[i].txid,
                              vout      |-> acc.selected[i].vout,
                              signature |-> <<>>,
                              pub_key   |-> PubKey(from)]],
                vout |-> <<TXOutput_new(amount, to)>> \o
                         (IF acc.accumulated > amount
                          THEN <<TXOutput_new(acc.accumulated - amount, from)>>
                          ELSE <<>>)]
    IN  IF acc.accumulated < amount THEN None
        ELSE Some(sign([tx EXCEPT !.id = TxHash(tx)], from))

\* what new_utxo can return, over the orders in which the store may visit the index
Transfers(from, to, amount, index) ==
    {new_utxo(from, to, amount, index, order) :
        order \in Orders(OwnedKeys(index, AddressDecode(from)))}

----------------------------------------------------------------------------
(* cli.rs: the commands.  Each command opens the store with Blockchain::new, *)
(* which panics when the store holds no "LAST".                              *)

\* Blockchain::new: the handle's current_hash, read from "LAST"
Blockchain_new(last) == from_utf8(last[1])

\* a send that mines the reward block before it looks at what new_utxo returned
send_AppendsBeforeCheck(last, blocks, index, from, tx, timestamp) ==
    LET cbtx == new_coinbase(from, SEND_COINBASE_DATA)
        r    == add_block(last, blocks,
                          IF tx = None THEN <<cbtx>> ELSE <<cbtx, tx[1]>>, timestamp)
    IN  [status       |-> IF tx = None THEN "InsufficientFunds" ELSE "success",
         last         |-> r.last,
         blocks       |-> r.blocks,
         current_hash |-> r.current_hash,
         utxos        |-> update(index, r.block),
         block        |-> Some(r.block)]

\* `send`: tx is what new_utxo returned (None for InsufficientFunds); then
\* add_block(vec![cbtx, tx]), then update
send(last, blocks, index, from, tx, timestamp) ==
    LET cbtx == new_coinbase(from, SEND_COINBASE_DATA)
    IN  IF tx = None
        THEN [status       |-> "InsufficientFunds",
              last         |-> last,
              blocks       |-> blocks,
              current_hash |-> Blockchain_new(last),
              utxos        |-> index,
              block        |-> None]
        ELSE LET r == add_block(last, blocks, <<cbtx, tx[1]>>, timestamp)
             IN  [status       |-> "success",
                  last         |-> r.last,
                  blocks       |-> r.blocks,
                  current_hash |-> r.current_hash,
                  utxos        |-> update(index, r.block),
                  block        |-> Some(r.block)]

Init ==
    /\ dbLast = None
    /\ dbBlocks = EmptyMap
    /\ current_hash = <<>>
    /\ utxos = EmptyMap
    /\ new_block = None
    /\ iterator = None
    /\ yielded = <<>>
    /\ appended = 0
    /\ out = [op |-> "none", status |-> "none"]

\* a command run on a store without "LAST": Blockchain::new panics
Panics(op) ==
    /\ out' = [op |-> op, status |-> "panic"]
    /\ yielded' = <<>>
    /\ UNCHANGED <<dbLast, dbBlocks, current_hash, utxos, new_block, iterator, appended>>

\* SystemTime::now(): the clock does not run backwards while a chain grows
Now == IF new_block = None \/ dbLast = None THEN Times
       ELSE {t \in Times : t >= new_block[1].timestamp}

\* `create ADDRESS`: create_blockchain (which removes the old store, and logs it
\* when there was none to remove), then reindex
Create(address, timestamp) ==
    /\ iterator = None
    /\ \E r \in {create_blockchain(dbBlocks, address, timestamp)} :
           /\ dbLast' = r.last
           /\ dbBlocks' = r.blocks
           /\ current_hash' = r.current_hash
           /\ utxos' = reindex(r.blocks, r.current_hash)
           /\ new_block' = Some(r.block)
    /\ appended' = 0
    /\ yielded' = <<>>
    /\ out' = [op |-> "create", status |-> "success", removed |-> dbLast # None]
    /\ UNCHANGED iterator

\* `send FROM TO AMOUNT`: the store visits the index in an order of its own, and
\* the block is stamped with the time of sealing
SendUpTo(limit, from, to, amount) ==
    /\ iterator = None
    /\ IF dbLast = None THEN Panics("send")
       ELSE \E tx \in Transfers(from, to, amount, utxos) :
              /\ tx # None => appended < limit
              /\ \E timestamp \in (IF tx = None THEN {0} ELSE Now) :
                 \E r \in {send(dbLast, dbBlocks, utxos, from, tx, timestamp)} :
                  /\ dbLast' = r.last
                  /\ dbBlocks' = r.blocks
                  /\ current_hash' = r.current_hash
                  /\ utxos' = r.utxos
                  /\ new_block' = IF r.block = None THEN new_block ELSE r.block
                  /\ appended' = IF r.block = None THEN appended ELSE appended + 1
                  /\ yielded' = <<>>
                  /\ out' = [op |-> "send", status |-> r.status]
                  /\ UNCHANGED iterator

Send(from, to, amount) == SendUpTo(MaxAppends, from, to, amount)

\* `reindex`
Reindex ==
    /\ iterator = None
    /\ IF dbLast = None THEN Panics("reindex")
       ELSE /\ current_hash' = Blockchain_new(dbLast)
            /\ utxos' = reindex(dbBlocks, Blockchain_new(dbLast))
            /\ yielded' = <<>>
            /\ out' = [op |-> "reindex", status |-> "success"]
            /\ UNCHANGED <<dbLast, dbBlocks, new_block, iterator, appended>>

\* `getbalance ADDRESS`
GetBalance(address) ==
    /\ iterator = None
    /\ IF dbLast = None THEN Panics("getbalance")
       ELSE /\ current_hash' = Blockchain_new(dbLast)
            /\ out' = [op |-> "getbalance", status |-> "success",
                       address |-> address, balance |-> balance(utxos, address)]
            /\ yielded' = <<>>
            /\ UNCHANGED <<dbLast, dbBlocks, utxos, new_block, iterator, appended>>

\* `printchain`: open the store and take an iterator
PrintChain ==
    /\ iterator = None
    /\ IF dbLast = None THEN Panics("printchain")
       ELSE /\ current_hash' = Blockchain_new(dbLast)
            /\ iterator' = iter(Blockchain_new(dbLast))
            /\ yielded' = <<>>
            /\ out' = [op |-> "printchain", status |-> "running"]
            /\ UNCHANGED <<dbLast, dbBlocks, utxos, new_block, appended>>

\* `printchain`: one turn of the for loop over the iterator
PrintNext ==
    /\ iterator # None
    /\ \E r \in {next(dbBlocks, iterator[1])} :
           IF r.item = None
           THEN /\ iterator' = None
                /\ out' = [op |-> "printchain", status |-> "success"]
                /\ UNCHANGED yielded
           ELSE /\ iterator' = Some(r.current_hash)
                /\ yielded' = Append(yielded, r.item[1])
                /\ UNCHANGED out
    /\ UNCHANGED <<dbLast, dbBlocks, current_hash, utxos, new_block, appended>>

Next ==
    \/ \E address \in Addresses, timestamp \in Times : Create(address, timestamp)
    \/ \E from \in Addresses, to \in Addresses, amount \in Amounts : Send(from, to, amount)
    \/ Reindex
    \/ \E address \in Addresses : GetBalance(address)
    \/ PrintChain
    \/ PrintNext

Spec == Init /\ [][Next]_vars

----------------------------------------------------------------------------
(* The command line with one more block: create and send alone *)

SendDeep(from, to, amount) == SendUpTo(MaxAppends + 1, from, to, amount)

NextDeep ==
    \/ \E address \in Addresses : Create(address, 0)
    \/ \E from \in Addresses, to \in Addresses, amount \in Amounts : SendDeep(from, to, amount)

SpecDeep == Init /\ [][NextDeep]_vars

----------------------------------------------------------------------------
(* The library: create_blockchain, then add_block with the caller's own     *)
(* transactions.  add_block takes whatever it is given.                     *)

\* the transactions of the blocks, tip first
RECURSIVE ChainTxs(_)
ChainTxs(chain) ==
    IF chain = <<>> THEN <<>> ELSE Head(chain).transactions \o ChainTxs(Tail(chain))

\* a transaction a caller writes by hand: it spends output vout of txid and pays
\* value to `to`
RawTransfer(txid, vout, from, to, value) ==
    LET tx == [id   |-> <<>>,
               vin  |-> <<[txid |-> txid, vout |-> vout, signature |-> <<>>,
                           pub_key |-> PubKey(from)]>>,
               vout |-> <<TXOutput_new(value, to)>>]
    IN  sign([tx EXCEPT !.id = TxHash(tx)], from)

\* hand-written transactions spending an output of `txs`, spent already or not
RawSpends(txs) ==
    {RawTransfer(txs[t].id, k - 1, "A", to, txs[t].vout[k].value) :
        <<t, k, to>> \in {x \in (1..Len(txs)) \X (1..2) \X Addresses : x[2] <= Len(txs[x[1]].vout)}}

\* the lists a caller passes: one transaction, or two
RawLists(txs) ==
    {<<x>> : x \in RawSpends(txs)}
    \cup {<<x, y>> : <<x, y>> \in {p \in RawSpends(txs) \X (RawSpends(txs) \cup
                                        UNION {RawSpends(<<z>>) : z \in RawSpends(txs)}) :
                                     p[2] \in RawSpends(txs) \cup RawSpends(<<p[1]>>)}}

\* Blockchain::create_blockchain called by a program
LibCreate(address, timestamp) ==
    /\ \E r \in {create_blockchain(dbBlocks, address, timestamp)} :
           /\ dbLast' = r.last
           /\ dbBlocks' = r.blocks
           /\ current_hash' = r.current_hash
           /\ new_block' = Some(r.block)
    /\ appended' = 0
    /\ out' = [op |-> "create_blockchain", status |-> "success"]
    /\ UNCHANGED <<utxos, iterator, yielded>>

\* Blockchain::add_block called by a program
AddBlock(timestamp) ==
    /\ dbLast # None
    /\ appended < MaxAppends
    /\ \E transactions \in RawLists(ChainTxs(Chain(dbBlocks, current_hash))) :
       \E r \in {add_block(dbLast, dbBlocks, transactions, timestamp)} :
           /\ dbLast' = r.last
           /\ dbBlocks' = r.blocks
           /\ current_hash' = r.current_hash
           /\ new_block' = Some(r.block)
    /\ appended' = appended + 1
    /\ out' = [op |-> "add_block", status |-> "success"]
    /\ UNCHANGED <<utxos, iterator, yielded>>

NextLib ==
    \/ \E address \in Addresses, timestamp \in Times : LibCreate(address, timestamp)
    \/ \E timestamp \in Now : AddBlock(timestamp)

SpecLib == Init /\ [][NextLib]_vars

----------------------------------------------------------------------------
(* Properties *)

\* the chain the handle sees, tip first, and its transactions
TheChain == Chain(dbBlocks, current_hash)
TheTxs == ChainTxs(TheChain)

PrintDone == out = [op |-> "printchain", status |-> "success"]

\* C1: the genesis block has prev_hash "" and height 0, and every other block has
\* the height of its predecessor plus one.
C1_HeightsCount ==
    LET chain == TheChain
    IN  chain # <<>> =>
          /\ chain[Len(chain)].prev_block_hash = <<>>
          /\ chain[Len(chain)].height = 0
          /\ \A i \in 1..(Len(chain) - 1) : chain[i].height = chain[i + 1].height + 1

\* C2: after create_blockchain and N add_block calls the iterator yields exactly
\* N + 1 blocks, each one's prev_hash the hash of the next, the last one the genesis
\* block, and then it ends.
C2_IterationWalksChain ==
    /\ Len(yielded) <= appended + 1
    /\ \A i \in 1..(Len(yielded) - 1) : yielded[i].prev_block_hash = yielded[i + 1].hash
    /\ iterator # None =>
          (next(dbBlocks, iterator[1]).item = None <=> Len(yielded) = appended + 1)
    /\ PrintDone =>
          /\ Len(yielded) = appended + 1
          /\ yielded[1].hash = from_utf8(dbLast[1])
          /\ yielded[Len(yielded)].prev_block_hash = <<>>
          /\ yielded[Len(yielded)].transactions[1].vin[1].pub_key = <<"data", GENESIS_COINBASE_DATA>>

C2_Witness == PrintDone /\ appended = MaxAppends /\ Len(yielded) = MaxAppends + 1

\* the inputs of the non-coinbase transactions of the chain, each with the place
\* of its transaction in the chain
SpendRefs ==
    {<<t, i>> \in (1..Len(TheTxs)) \X (1..2) :
        ~is_coinbase(TheTxs[t]) /\ i <= Len(TheTxs[t].vin)}

\* C3: each pair (transaction id, output index) is referenced by the input of at most
\* one non-coinbase transaction of the chain.
C3_NoDoubleSpend ==
    \A p \in SpendRefs, q \in SpendRefs :
        (/\ p[1] # q[1]
         /\ TheTxs[p[1]].vin[p[2]].txid = TheTxs[q[1]].vin[q[2]].txid)
        => TheTxs[p[1]].vin[p[2]].vout # TheTxs[q[1]].vin[q[2]].vout

\* the index built by applying the incremental update to every block, genesis first
RECURSIVE ApplyForward(_, _, _)
ApplyForward(chain, i, index) ==
    IF i = 0 THEN index ELSE ApplyForward(chain, i - 1, update(index, chain[i]))

\* C4: the index of the full rebuild equals the index obtained from an empty index by
\* applying the incremental update to every block in genesis-to-tip order.
C4_RebuildEqualsApply ==
    find_utxo(dbBlocks, current_hash) = ApplyForward(TheChain, Len(TheChain), EmptyMap)

\* output `index` of the transaction with this id is in the rebuilt index
Indexed(id, index) ==
    LET found == find_utxo_scan(dbBlocks, current_hash)
    IN  id \in DOMAIN found /\ \E k \in 1..Len(found[id]) : found[id][k].index = index

\* an input of a non-coinbase transaction of block b (counted from the tip)
\* references output `index` of the transaction with this id
SpentIn(b, id, index) ==
    \E t \in 1..Len(TheChain[b].transactions) :
        /\ ~is_coinbase(TheChain[b].transactions[t])
        /\ \E i \in 1..Len(TheChain[b].transactions[t].vin) :
              /\ TheChain[b].transactions[t].vin[i].txid = id
              /\ TheChain[b].transactions[t].vin[i].vout = index

\* C5: the rebuilt index contains an output iff no input of a non-coinbase transaction
\* in a later block or in the same block references it.
C5_IndexedIffUnreferenced ==
    \A b \in 1..Len(TheChain) :
        \A t \in 1..Len(TheChain[b].transactions) :
            \A k \in 1..Len(TheChain[b].transactions[t].vout) :
                Indexed(TheChain[b].transactions[t].id, k - 1)
                <=> ~\E later \in 1..b : SpentIn(later, TheChain[b].transactions[t].id, k - 1)

\* C6: a block satisfies validate() when sealing returns, and still does after the
\* store's serialization and the iterator's deserialization.
C6_SealedBlocksValidate ==
    /\ new_block # None => validate(new_block[1])
    /\ \A i \in 1..Len(yielded) : validate(yielded[i])
    /\ \A h \in DOMAIN dbBlocks :
          Deserialize(dbBlocks[h]) # None /\ validate(Deserialize(dbBlocks[h])[1])

C6_Witness ==
    /\ PrintDone
    /\ Len(yielded) = MaxAppends + 1
    /\ \E i \in 1..Len(yielded) : yielded[i].nonce > 0
    /\ new_block # None /\ new_block[1].nonce > 0

\* C7: the stored hash of every stored block is the digest recomputed from its
\* (prev_hash, transactions, timestamp, difficulty, nonce), and the key it is stored
\* under is that hash.
C7_StoredHashIsDigest ==
    \A h \in DOMAIN dbBlocks :
        LET b == Deserialize(dbBlocks[h])[1]
        IN  /\ b.hash = Sha256(prepare_hash_data(b))
            /\ h = b.hash

C7_Witness ==
    /\ Cardinality(DOMAIN dbBlocks) = MaxAppends + 1
    /\ \E h \in DOMAIN dbBlocks : Deserialize(dbBlocks[h])[1].nonce > 0

\* C8: after create with reward R to A, balance(A) = R; each successful send of X
\* changes the sender's balance by -X + reward, the receiver's by +X, and no other.
C8_BalancesFollowSends ==
    [][/\ \A address \in Addresses, timestamp \in Times :
             Create(address, timestamp) => balance(utxos', address) = SUBSIDY
       /\ \A from \in Addresses, to \in Addresses, amount \in Amounts :
             (dbLast # None /\ Send(from, to, amount) /\ out'.status = "success")
             => \A a \in Addresses :
                   balance(utxos', a) =
                       balance(utxos, a)
                       + (IF a = from THEN SUBSIDY - amount ELSE 0)
                       + (IF a = to THEN amount ELSE 0)]_vars

\* the value of the output an input references
ReferencedValue(vin) ==
    LET prev == find_transaction(dbBlocks, current_hash, vin.txid)
    IN  IF prev = None \/ vin.vout < 0 \/ vin.vout >= Len(prev[1].vout) THEN 0
        ELSE prev[1].vout[vin.vout + 1].value

\* C9: for every non-coinbase transaction a send committed, the values of the outputs
\* its inputs reference sum to the values of its own outputs.
C9_ValueConserved ==
    \A t \in 1..Len(TheTxs) :
        ~is_coinbase(TheTxs[t]) =>
            SumSeq([i \in 1..Len(TheTxs[t].vin) |-> ReferencedValue(TheTxs[t].vin[i])])
            = SumSeq([k \in 1..Len(TheTxs[t].vout) |-> TheTxs[t].vout[k].value])

C11_MissingTipIsTypedFailure ==
    /\ out.status # "panic"
    /\ (dbLast = None /\ out.op \in {"send", "reindex", "getbalance", "printchain"})
          => out.status = "UninitializedChain"

----------------------------------------------------------------------------
(* The command line on a store whose bytes the disk loses or damages *)

\* stored bytes that bincode cannot decode as a Block
Garbage == <<"garbage">>

\* a walk from "LAST" reaches the genesis block: nothing is damaged yet
Intact ==
    /\ dbLast # None
    /\ LET chain == Chain(dbBlocks, from_utf8(dbLast[1]))
       IN  chain # <<>> /\ chain[Len(chain)].prev_block_hash = <<>>

\* the bytes of one block that is not the tip are damaged
Corrupt(h) ==
    /\ iterator = None
    /\ Intact
    /\ h # from_utf8(dbLast[1])
    /\ dbBlocks' = Put(dbBlocks, h, Garbage)
    /\ UNCHANGED <<dbLast, current_hash, utxos, new_block, iterator, yielded, appended, out>>

\* the entry of one block that is not the tip is lost
Lose(h) ==
    /\ iterator = None
    /\ Intact
    /\ h # from_utf8(dbLast[1])
    /\ dbBlocks' = Remove(dbBlocks, h)
    /\ UNCHANGED <<dbLast, current_hash, utxos, new_block, iterator, yielded, appended, out>>

NextCorrupt ==
    \/ \E address \in Addresses : Create(address, 0)
    \/ \E from \in Addresses, to \in Addresses, amount \in Amounts : Send(from, to, amount)
    \/ PrintChain
    \/ PrintNext
    \/ \E h \in DOMAIN dbBlocks : Corrupt(h)
    \/ \E h \in DOMAIN dbBlocks : Lose(h)

SpecCorrupt == Init /\ [][NextCorrupt]_vars

\* a printchain that has run to its end on a store with a tip pointer
PrintEnded == out.op = "printchain" /\ iterator = None /\ dbLast # None

\* the iteration ended before it reached a genesis block
EndedEarly == yielded = <<>> \/ yielded[Len(yielded)].prev_block_hash # <<>>

\* C12: with one non-tip block damaged or missing, the iteration yields the blocks
\* from the tip down to the damaged one, does not crash, and signals CorruptChain
\* exactly when it ended before the genesis block.
C12_CorruptionIsSignalled ==
    PrintEnded =>
        /\ out.status # "panic"
        /\ yielded # <<>> /\ yielded[1].hash = from_utf8(dbLast[1])
        /\ \A i \in 1..(Len(yielded) - 1) : yielded[i].prev_block_hash = yielded[i + 1].hash
        /\ EndedEarly =>
              LET stop == yielded[Len(yielded)].prev_block_hash
              IN  stop \notin DOMAIN dbBlocks \/ Deserialize(dbBlocks[stop]) = None
        /\ out.status = "CorruptChain" <=> EndedEarly

----------------------------------------------------------------------------
(* `send` statement by statement: new_utxo, Block::new_block, the two inserts *)
(* of add_block, the assignment of current_hash and the index update, each   *)
(* `?` a place where the command may return an error.  out.status is the     *)
(* place the command has reached, out.before the store and the index as the  *)
(* command found them.                                                       *)

InSend == out.op = "send" /\ out.status \in {"sealed", "stored", "repointed", "appended"}

\* cli.rs:97-99 and blockchain.rs:66-68: open the store, build the transfer, read
\* "LAST" and seal a block on top of it; new_utxo or new_block may return an error
SendSeal(from, to, amount) ==
    /\ ~InSend
    /\ iterator = None
    /\ IF dbLast = None THEN Panics("send")
       ELSE \E tx \in Transfers(from, to, amount, utxos), sealed \in BOOLEAN :
              /\ tx # None => appended < MaxAppends
              /\ tx = None => sealed
              /\ \E timestamp \in (IF tx = None \/ ~sealed THEN {0} ELSE Now) :
                 \E block \in {IF tx = None \/ ~sealed THEN None
                               ELSE Some(Block_new_block(
                                        <<new_coinbase(from, SEND_COINBASE_DATA), tx[1]>>,
                                        from_utf8(dbLast[1]), BLOCKCHAIN_TARGET_HEXT,
                                        timestamp))} :
                  /\ new_block' = IF block = None THEN new_block ELSE block
                  /\ out' = [op     |-> "send",
                             status |-> IF tx = None THEN "InsufficientFunds"
                                        ELSE IF sealed THEN "sealed" ELSE "StoreIOError",
                             before |-> <<dbLast, dbBlocks, utxos>>]
                  /\ current_hash' = Blockchain_new(dbLast)
                  /\ appended' = IF block = None THEN appended ELSE appended + 1
                  /\ yielded' = <<>>
                  /\ UNCHANGED <<dbLast, dbBlocks, utxos, iterator>>

\* an add_block that repoints "LAST" where it should insert the block
AddBlockInsert_RepointsFirst ==
    /\ out.op = "send" /\ out.status = "sealed"
    /\ dbLast' = Some(as_bytes(new_block[1].hash))
    /\ out' = [out EXCEPT !.status = "stored"]
    /\ UNCHANGED <<dbBlocks, current_hash, utxos, new_block, iterator, yielded, appended>>

\* blockchain.rs:69: db.insert(new_block.get_hash(), serialize(&new_block))
AddBlockInsert ==
    /\ out.op = "send" /\ out.status = "sealed"
    /\ dbBlocks' = Put(dbBlocks, new_block[1].hash, Serialize(new_block[1]))
    /\ out' = [out EXCEPT !.status = "stored"]
    /\ UNCHANGED <<dbLast, current_hash, utxos, new_block, iterator, yielded, appended>>

\* blockchain.rs:70: db.insert("LAST", new_block.get_hash().as_bytes())
AddBlockRepoint ==
    /\ out.op = "send" /\ out.status = "stored"
    /\ dbLast' = Some(as_bytes(new_block[1].hash))
    /\ out' = [out EXCEPT !.status = "repointed"]
    /\ UNCHANGED <<dbBlocks, current_hash, utxos, new_block, iterator, yielded, appended>>

\* blockchain.rs:71-72: self.current_hash = new_block.get_hash(); Ok(new_block)
AddBlockReturn ==
    /\ out.op = "send" /\ out.status = "repointed"
    /\ current_hash' = new_block[1].hash
    /\ out' = [out EXCEPT !.status = "appended"]
    /\ UNCHANGED <<dbLast, dbBlocks, utxos, new_block, iterator, yielded, appended>>

\* cli.rs:103-104: utxo_set.update(&new_block)?; println!("success!")
SendUpdate ==
    /\ out.op = "send" /\ out.status = "appended"
    /\ utxos' = update(utxos, new_block[1])
    /\ out' = [out EXCEPT !.status = "success"]
    /\ UNCHANGED <<dbLast, dbBlocks, current_hash, new_block, iterator, yielded, appended>>

\* the statement the command has come to returns an error (an insert of
\* add_block, or update), and `?` hands it to the caller of run
SendFails ==
    /\ out.op = "send" /\ out.status \in {"sealed", "stored", "appended"}
    /\ out' = [out EXCEPT !.status = "StoreIOError"]
    /\ UNCHANGED <<dbLast, dbBlocks, current_hash, utxos, new_block, iterator, yielded, appended>>

NextSteps ==
    \/ \E address \in Addresses : ~InSend /\ Create(address, 0)
    \/ \E from \in Addresses, to \in Addresses, amount \in Amounts : SendSeal(from, to, amount)
    \/ AddBlockInsert
    \/ AddBlockRepoint
    \/ AddBlockReturn
    \/ SendUpdate
    \/ SendFails

SpecSteps == Init /\ [][NextSteps]_vars

\* C13: a send that failed at any step leaves the stored blocks, the tip pointer,
\* the in-memory tip and the index as it found them, and a send that succeeded has
\* stored the block, repointed the tip to it and applied it to the index.
C13_SendIsAllOrNothing ==
    /\ (out.op = "send" /\ out.status \in {"StoreIOError", "InsufficientFunds"}) =>
          /\ <<dbLast, dbBlocks, utxos>> = out.before
          /\ current_hash = from_utf8(dbLast[1])
    /\ (out.op = "send" /\ out.status = "success") =>
          /\ new_block[1].hash \in DOMAIN dbBlocks
          /\ dbLast = Some(as_bytes(new_block[1].hash))
          /\ current_hash = new_block[1].hash
          /\ utxos = update(out.before[3], new_block[1])

\* C16: add_block seals on top of the "LAST" it read, stores the block before it
\* repoints "LAST", ends with "LAST" naming the new block, and at no step does
\* "LAST" name a hash without a stored block.
C16_TipNamesStoredBlock ==
    /\ dbLast # None => from_utf8(dbLast[1]) \in DOMAIN dbBlocks
    /\ (out.op = "send" /\ out.status \in {"sealed", "stored"}) =>
          /\ dbLast = out.before[1]
          /\ new_block[1].prev_block_hash = from_utf8(dbLast[1])
    /\ (out.op = "send" /\ out.status = "stored") =>
          /\ new_block[1].hash \in DOMAIN dbBlocks
          /\ Deserialize(dbBlocks[new_block[1].hash]) = new_block
    /\ (out.op = "send" /\ out.status \in {"repointed", "appended", "success"}) =>
          /\ dbLast = Some(as_bytes(new_block[1].hash))
          /\ new_block[1].prev_block_hash = from_utf8(out.before[1][1])

C16_Witness ==
    /\ out.op = "send" /\ out.status = "repointed"
    /\ appended = MaxAppends
    /\ Cardinality(DOMAIN dbBlocks) = MaxAppends + 1

----------------------------------------------------------------------------
(* The command line with every amount `amount.parse()` accepts as an i32 *)

\* amounts below zero as well (`send FROM TO -- -1`)
SignedAmounts == {-1, 1, 2}

SendSigned(from, to, amount) == SendUpTo(MaxAppends, from, to, amount)

NextSigned ==
    \/ \E address \in Addresses : Create(address, 0)
    \/ \E from \in Addresses, to \in Addresses, amount \in SignedAmounts :
          SendSigned(from, to, amount)

SpecSigned == Init /\ [][NextSigned]_vars

\* C14: every output of every transaction of the chain has a value >= 0.
C14_OutputsNonNegative ==
    \A t \in 1..Len(TheTxs) :
        \A k \in 1..Len(TheTxs[t].vout) : TheTxs[t].vout[k].value >= 0

----------------------------------------------------------------------------
(* Properties of the store *)

\* C15 as claimed: no operation, create_blockchain included, changes or removes a
\* stored block.
C15_StoredBlocksNeverChange ==
    [][\A h \in DOMAIN dbBlocks : h \in DOMAIN dbBlocks' /\ dbBlocks'[h] = dbBlocks[h]]_vars

\* C15, amended: no operation but create_blockchain changes or removes a stored
\* block (add_block, iteration, find_utxo leave every stored entry as it is).
C15_StoredBlocksChangeOnlyOnCreate ==
    [][out'.op # "create" =>
          \A h \in DOMAIN dbBlocks : h \in DOMAIN dbBlocks' /\ dbBlocks'[h] = dbBlocks[h]]_vars

C15_Witness ==
    /\ out = [op |-> "send", status |-> "success"]
    /\ Cardinality(DOMAIN dbBlocks) = MaxAppends + 1
    /\ Len(TheChain) = MaxAppends + 1

\* C17: after create_blockchain, also on a store that held a chain, the store holds
\* exactly the new genesis block, "LAST" names it and the iterator yields one block.
C17_CreateResetsStore ==
    out.op = "create" =>
        /\ dbLast # None
        /\ DOMAIN dbBlocks = {from_utf8(dbLast[1])}
        /\ Deserialize(dbBlocks[from_utf8(dbLast[1])]) = new_block
        /\ new_block[1].prev_block_hash = <<>>
        /\ new_block[1].height = 0
        /\ is_coinbase(new_block[1].transactions[1]) /\ Len(new_block[1].transactions) = 1
        /\ Len(Chain(dbBlocks, current_hash)) = 1

C17_Witness == out.op = "create" /\ out.removed

----------------------------------------------------------------------------
(* run_proof_of_work turn by turn, for any digest function.  The nonce is an *)
(* i32; the model keeps the two's-complement range and narrows it.  A digest *)
(* function is given by the nonces whose digest meets the target.            *)

\* i32::MAX of the narrowed counter
NonceMax == 3
NonceMin == -(NonceMax + 1)

\* Block::validate for the digest function `meets`
validate_for(meets, block) == block.nonce \in meets

\* Block::new_block up to the call of run_proof_of_work: nonce 0, hash empty
MineBegin(meets) ==
    /\ out.op = "none"
    /\ new_block' = Some([timestamp |-> 0, transactions |-> <<>>, prev_block_hash |-> <<>>,
                          hash |-> <<>>, height |-> 0, nonce |-> 0])
    /\ out' = [op |-> "run_proof_of_work", status |-> "mining", meets |-> meets]
    /\ UNCHANGED <<dbLast, dbBlocks, current_hash, utxos, iterator, yielded, appended>>

\* one turn of `while !self.validate()? { self.nonce += 1 }`, or the statements
\* after the loop.  `nonce += 1` at i32::MAX panics where overflow is checked and
\* wraps to i32::MIN where it is not.
MineTurn ==
    /\ out.op = "run_proof_of_work" /\ out.status = "mining"
    /\ IF validate_for(out.meets, new_block[1])
       THEN /\ new_block' = Some([new_block[1] EXCEPT !.hash = <<"digest", new_block[1].nonce>>])
            /\ out' = [out EXCEPT !.status = "sealed"]
       ELSE IF new_block[1].nonce = NonceMax
       THEN \/ /\ out' = [out EXCEPT !.status = "overflow"]
               /\ UNCHANGED new_block
            \/ /\ new_block' = Some([new_block[1] EXCEPT !.nonce = NonceMin])
               /\ UNCHANGED out
       ELSE /\ new_block' = Some([new_block[1] EXCEPT !.nonce = @ + 1])
            /\ UNCHANGED out
    /\ UNCHANGED <<dbLast, dbBlocks, current_hash, utxos, iterator, yielded, appended>>

NextMine ==
    \/ \E meets \in SUBSET (NonceMin..NonceMax) : MineBegin(meets)
    \/ MineTurn

SpecMine == Init /\ [][NextMine]_vars

\* C18: the loop tries 0, 1, 2, ... in order, seals at the least non-negative nonce
\* that meets the target, and never ends in an overflow, whatever the digest function.
C18_MiningNeverFails ==
    out.op = "run_proof_of_work" =>
        /\ out.status # "overflow"
        /\ new_block[1].nonce >= 0
        /\ \A n \in 0..(new_block[1].nonce - 1) : n \notin out.meets
        /\ out.status = "sealed" => new_block[1].nonce \in out.meets

----------------------------------------------------------------------------
(* A handle whose owner looks transactions up by id *)

\* an id no transaction has
AbsentId == <<"txid", <<>>, <<>>>>

\* Blockchain::find_transaction(id) on an open handle; out.before is the store
\* and the tip as the call found them
FindTransaction(id) ==
    /\ iterator = None
    /\ dbLast # None
    /\ \E r \in {find_transaction(dbBlocks, current_hash, id)} :
           out' = [op     |-> "find_transaction",
                   status |-> IF r = None THEN "TransactionNotFound" ELSE "success",
                   id     |-> id,
                   tx     |-> r,
                   before |-> <<dbLast, dbBlocks, current_hash>>]
    /\ yielded' = <<>>
    /\ UNCHANGED <<dbLast, dbBlocks, current_hash, utxos, new_block, iterator, appended>>

\* (the addresses are interchangeable: the chain is created for one of them)
NextFind ==
    \/ Create("A", 0)
    \/ \E from \in Addresses, to \in Addresses, amount \in Amounts : Send(from, to, amount)
    \/ \E id \in {TheTxs[t].id : t \in 1..Len(TheTxs)} \cup {AbsentId} : FindTransaction(id)

SpecFind == Init /\ [][NextFind]_vars

\* the places in txs of the transactions with this id
Holders(txs, id) == {t \in 1..Len(txs) : txs[t].id = id}

\* C19: find_transaction(id) returns the first transaction with this id on the walk
\* from the tip when there is one and TransactionNotFound when there is none, and
\* leaves the store and the tip as they were.
C19_FindTransactionFindsIt ==
    out.op = "find_transaction" =>
        /\ <<dbLast, dbBlocks, current_hash>> = out.before
        /\ \A txs \in {TheTxs} :
           \A holders \in {Holders(txs, out.id)} :
              /\ out.status = "success" <=> holders # {}
              /\ out.status = "TransactionNotFound" <=> holders = {}
              /\ holders # {} =>
                    /\ out.tx # None
                    /\ out.tx[1].id = out.id
                    /\ out.tx[1] = txs[CHOOSE t \in holders : \A u \in holders : t <= u]
              /\ holders = {} => out.tx = None

C19_Witness ==
    /\ out.op = "find_transaction" /\ out.status = "success"
    /\ Len(TheChain) = MaxAppends + 1
    /\ out.tx[1] \notin {TheChain[1].transactions[t] : t \in 1..Len(TheChain[1].transactions)}

\* C20: after every completed create_blockchain, Blockchain::new or add_block the
\* handle's current_hash is the persisted "LAST", so an iteration starts at the tip,
\* yields the block added last first, and yields what any other iteration taken
\* with no add_block in between yields.
C20_CurrentHashIsLast ==
    dbLast # None =>
        /\ current_hash = from_utf8(dbLast[1])
        /\ iter(current_hash) = Some(from_utf8(dbLast[1]))
        /\ next(dbBlocks, iter(current_hash)[1]).item = new_block
        /\ PrintDone => (yielded = TheChain /\ yielded[1] = new_block[1])

C20_Witness ==
    /\ PrintDone
    /\ appended >= 1
    /\ yielded[1] = new_block[1]
    /\ yielded[1].prev_block_hash # <<>>
    /\ current_hash = from_utf8(dbLast[1])

====
